---- MODULE Spec2Model ----
(***************************************************************************)
(* Model of TaxiCalculator (src/taxi_calculator.py).                        *)
(*                                                                         *)
(* Python numbers are modelled by what CPython does with them: an int is   *)
(* an exact integer, a float is an IEEE-754 binary64 value m * 2^e with a  *)
(* 53-bit significand m.  Significands and their products do not fit the   *)
(* model checker's integers, so naturals are kept as little-endian         *)
(* sequences of 15-bit limbs and float operations are computed exactly and *)
(* rounded to nearest, ties to even, as the hardware does.                 *)
(***************************************************************************)
EXTENDS Integers, Sequences, FiniteSets, TLC

(***************************************************************************)
(* Arbitrary-size naturals: <<l1, l2, ...>> is l1 + l2*Base + ...          *)
(***************************************************************************)
Base == 2^15

RECURSIVE BNorm(_)
BNorm(a) ==
  IF a = <<>> THEN a
  ELSE IF a[Len(a)] = 0 THEN BNorm(SubSeq(a, 1, Len(a) - 1)) ELSE a

RECURSIVE BFromInt(_)
BFromInt(n) == IF n = 0 THEN <<>> ELSE <<n % Base>> \o BFromInt(n \div Base)

RECURSIVE BMulSmallC(_, _, _)
BMulSmallC(a, k, c) ==
  IF a = <<>> THEN BFromInt(c)
  ELSE LET t == a[1] * k + c
       IN  <<t % Base>> \o BMulSmallC(Tail(a), k, t \div Base)

\* a * k for 0 <= k < Base
BMulSmall(a, k) == IF k = 0 THEN <<>> ELSE BMulSmallC(a, k, 0)

RECURSIVE BDivSmallR(_, _, _, _)
BDivSmallR(a, k, i, r) ==
  IF i = 0 THEN [q |-> <<>>, r |-> r]
  ELSE LET t    == r * Base + a[i]
           rest == BDivSmallR(a, k, i - 1, t % k)
       IN  [q |-> rest.q \o <<t \div k>>, r |-> rest.r]

BDivNorm(d) == [q |-> BNorm(d.q), r |-> d.r]

\* quotient and remainder of a by k, 0 < k <= Base
BDivSmall(a, k) == BDivNorm(BDivSmallR(a, k, Len(a), 0))

RECURSIVE BAddC(_, _, _)
BAddC(a, b, c) ==
  IF a = <<>> /\ b = <<>> THEN BFromInt(c)
  ELSE LET x == IF a = <<>> THEN 0 ELSE a[1]
           y == IF b = <<>> THEN 0 ELSE b[1]
           t == x + y + c
       IN  <<t % Base>> \o BAddC(IF a = <<>> THEN a ELSE Tail(a),
                                 IF b = <<>> THEN b ELSE Tail(b), t \div Base)

BAdd(a, b) == BAddC(a, b, 0)

RECURSIVE BSubC(_, _, _)
BSubC(a, b, c) ==
  IF a = <<>> THEN <<>>
  ELSE LET y == IF b = <<>> THEN 0 ELSE b[1]
           t == a[1] - y - c
       IN  <<(t + Base) % Base>> \o
           BSubC(Tail(a), IF b = <<>> THEN b ELSE Tail(b), IF t < 0 THEN 1 ELSE 0)

\* a - b for a >= b
BSub(a, b) == BNorm(BSubC(a, b, 0))

RECURSIVE BCmpR(_, _, _)
BCmpR(a, b, i) ==
  IF i = 0 THEN 0
  ELSE IF a[i] < b[i] THEN -1
  ELSE IF a[i] > b[i] THEN 1
  ELSE BCmpR(a, b, i - 1)

\* -1, 0, 1 as a < b, a = b, a > b
BCmp(a, b) ==
  IF Len(a) < Len(b) THEN -1
  ELSE IF Len(a) > Len(b) THEN 1
  ELSE BCmpR(a, b, Len(a))

RECURSIVE BMul(_, _)
BMul(a, b) ==
  IF a = <<>> \/ b = <<>> THEN <<>>
  ELSE BNorm(BAdd(BMulSmall(a, b[1]), <<0>> \o BMul(a, Tail(b))))

SmallBitLen(n) == CHOOSE k \in 1..15 : 2^(k - 1) <= n /\ n < 2^k

BitLen(a) == IF a = <<>> THEN 0 ELSE 15 * (Len(a) - 1) + SmallBitLen(a[Len(a)])

BOdd(a) == a # <<>> /\ a[1] % 2 = 1

\* a * 2^k
BShiftL(a, k) ==
  IF a = <<>> THEN a
  ELSE [i \in 1..(k \div 15) |-> 0] \o BMulSmall(a, 2^(k % 15))

\* d: the limbs kept, divided; low: the limbs dropped
BShiftedOut(d, low) ==
  [q |-> d.q, sticky |-> d.r # 0 \/ \E i \in 1..Len(low) : low[i] # 0]

\* floor(a / 2^k), and whether any of the dropped bits was set
BShiftR(a, k) ==
  LET n == k \div 15
  IN  BShiftedOut(BDivSmall(SubSeq(a, n + 1, Len(a)), 2^(k % 15)),
                  SubSeq(a, 1, IF n < Len(a) THEN n ELSE Len(a)))

\* the integer nearest to (a + fraction) / 2^k, ties to the even one; sticky
\* tells of a nonzero fraction below a's last bit
BRoundHalf(d, sticky) ==
  IF d.r = 1 /\ (sticky \/ BOdd(d.q)) THEN BAdd(d.q, <<1>>) ELSE d.q

BRoundLast(s, sticky) == BRoundHalf(BDivSmall(s.q, 2), s.sticky \/ sticky)

BRoundShift(a, k, sticky) ==
  IF k = 0 THEN a ELSE BRoundLast(BShiftR(a, k - 1), sticky)

(***************************************************************************)
(* IEEE-754 binary64 values: [cls, neg, m, e].  A finite value is          *)
(* (-1)^neg * m * 2^e, where m has exactly 53 bits or is <<>> for zero; cls *)
(* also tells infinities and NaN.  Results too large for the format become *)
(* infinities; the values of the model stay far from the subnormal range,  *)
(* which is not modelled.                                                  *)
(***************************************************************************)
DFinite(neg, m, e) == [cls |-> "finite", neg |-> neg, m |-> m, e |-> e]
DZero(neg) == DFinite(neg, <<>>, 0)
DInf(neg) == [cls |-> "inf", neg |-> neg, m |-> <<>>, e |-> 0]
DNaN == [cls |-> "nan", neg |-> FALSE, m |-> <<>>, e |-> 0]

\* a finite value, or the infinity it overflows to
DPack(neg, m, e) == IF e + 53 > 1024 THEN DInf(neg) ELSE DFinite(neg, m, e)

\* the double nearest to (a + fraction) * 2^e, ties to even (sticky: a nonzero
\* fraction below a's last bit, given only when a has bits to spare)
DNormal(neg, r, e) ==
  IF BitLen(r) > 53 THEN DPack(neg, BShiftR(r, 1).q, e + 1) ELSE DPack(neg, r, e)

ToDouble(neg, a, e, sticky) ==
  IF a = <<>> THEN DZero(neg)
  ELSE LET L == BitLen(a)
       IN  IF L <= 53
           THEN DPack(neg, BShiftL(a, 53 - L), e - (53 - L))
           ELSE DNormal(neg, BRoundShift(a, L - 53, sticky), e + (L - 53))

RECURSIVE BDivPow10(_, _, _)
\* floor(a / 10^k), and whether the division left a remainder
BDivPow10(a, k, sticky) ==
  IF k = 0 THEN [q |-> a, sticky |-> sticky]
  ELSE LET d == BDivSmall(a, 10) IN BDivPow10(d.q, k - 1, sticky \/ d.r # 0)

RECURSIVE BMulPow10(_, _)
BMulPow10(a, k) == IF k = 0 THEN a ELSE BMulPow10(BMulSmall(a, 10), k - 1)

\* the double nearest to the quotient d of a division, remainder and all
DQuotient(neg, d, e) == ToDouble(neg, d.q, e, d.sticky)

\* the double nearest to a / 10^k: what the parser makes of a decimal literal
\* and what strtod makes of a decimal string
DecToDouble(neg, a, k) ==
  IF a = <<>> THEN DZero(neg)
  ELSE LET need == 56 + 4 * k - BitLen(a)
           s    == IF need > 0 THEN need ELSE 0
       IN  DQuotient(neg, BDivPow10(BShiftL(a, s), k, FALSE), -s)

Abs(n) == IF n < 0 THEN -n ELSE n

\* int -> float conversion (exact for the integers of the model)
IntToDouble(n) == ToDouble(n < 0, BFromInt(Abs(n)), 0, FALSE)

DIsZero(x) == x.cls = "finite" /\ x.m = <<>>

\* x * y
DMul(x, y) ==
  IF x.cls = "nan" \/ y.cls = "nan" THEN DNaN
  ELSE IF x.cls = "inf" \/ y.cls = "inf"
       THEN (IF DIsZero(x) \/ DIsZero(y) THEN DNaN ELSE DInf(x.neg # y.neg))
  ELSE IF DIsZero(x) \/ DIsZero(y) THEN DZero(x.neg # y.neg)
  ELSE ToDouble(x.neg # y.neg, BMul(x.m, y.m), x.e + y.e, FALSE)

\* -1, 0, 1 comparing the magnitudes of two values that are not NaN
DCmpMag(x, y) ==
  IF x.cls = "inf" THEN (IF y.cls = "inf" THEN 0 ELSE 1)
  ELSE IF y.cls = "inf" THEN -1
  ELSE IF x.m = <<>> THEN (IF y.m = <<>> THEN 0 ELSE -1)
  ELSE IF y.m = <<>> THEN 1
  ELSE IF x.e < y.e THEN -1
  ELSE IF x.e > y.e THEN 1
  ELSE BCmp(x.m, y.m)

\* -1, 0, 1 as x < y, x = y, x > y; 2 (unordered) when either is NaN
DCmp(x, y) ==
  IF x.cls = "nan" \/ y.cls = "nan" THEN 2
  ELSE IF DIsZero(x) /\ DIsZero(y) THEN 0
  ELSE IF x.neg /\ ~y.neg THEN -1
  ELSE IF ~x.neg /\ y.neg THEN 1
  ELSE IF x.neg THEN DCmpMag(y, x) ELSE DCmpMag(x, y)

\* round(x, 2) of a float: infinities and NaN round to themselves; the exact
\* binary value of a finite x is rounded to two decimals, ties to even, and
\* the decimal is converted back (float.__round__)
DRound2(x) ==
  IF x.cls # "finite" \/ x.m = <<>> \/ x.e >= 0 THEN x
  ELSE DecToDouble(x.neg, BRoundShift(BMulSmall(x.m, 100), -x.e, FALSE), 2)

(***************************************************************************)
(* Python values                                                           *)
(***************************************************************************)
PyInt(n) == [type |-> "int", v |-> n]
PyBool(b) == [type |-> "bool", v |-> IF b THEN 1 ELSE 0]
PyFloatOf(d) == [type |-> "float", d |-> d]
\* the float literal n / 10^k
PyFloat(n, k) == PyFloatOf(DecToDouble(n < 0, BFromInt(Abs(n)), k))
PyStr(s) == [type |-> "str", s |-> s]
PyList(items) == [type |-> "list", items |-> items]
PyNone == [type |-> "NoneType"]

\* isinstance(x, int), isinstance(x, (int, float)): bool is a subclass of int
IsInt(x) == x.type \in {"int", "bool"}
IsNumber(x) == x.type \in {"int", "bool", "float"}
\* lists (and dicts, sets) have no hash
Hashable(x) == x.type # "list"

AsDouble(x) == IF x.type = "float" THEN x.d ELSE IntToDouble(x.v)

\* comparison and product of two numbers, as the interpreter makes them
PyCmp(x, y) == IF IsInt(x) /\ IsInt(y)
               THEN (IF x.v < y.v THEN -1 ELSE IF x.v > y.v THEN 1 ELSE 0)
               ELSE DCmp(AsDouble(x), AsDouble(y))
PyLe(x, y) == PyCmp(x, y) \in {-1, 0}
PyGt(x, y) == PyCmp(x, y) = 1
PyEq(x, y) == PyCmp(x, y) = 0
PyMul(x, y) == IF IsInt(x) /\ IsInt(y) THEN PyInt(x.v * y.v)
               ELSE PyFloatOf(DMul(AsDouble(x), AsDouble(y)))
\* max(x, y): y only when it is greater than x
PyMax(x, y) == IF PyGt(y, x) THEN y ELSE x
\* round(x, 2): of an int, the int
PyRound2(x) == IF IsInt(x) THEN PyInt(x.v) ELSE PyFloatOf(DRound2(x.d))

\* a dict: its items in insertion order
Item(k, v) == [key |-> k, value |-> v]
\* keys match when equal: numbers by value (1 == 1.0 == True)
KeyEq(a, b) == IF IsNumber(a) /\ IsNumber(b) THEN PyEq(a, b)
               ELSE a.type = b.type /\ a = b
DictHas(d, k) == \E i \in 1..Len(d) : KeyEq(d[i].key, k)
DictGet(d, k) == d[CHOOSE i \in 1..Len(d) : KeyEq(d[i].key, k)].value
DictKeys(d) == [i \in 1..Len(d) |-> d[i].key]

\* how a call ends
Return(v) == [kind |-> "return", value |-> v]
Raise(exc, text, arg) == [kind |-> "raise", exc |-> exc, text |-> text, arg |-> arg]

(***************************************************************************)
(* class TaxiCalculator.  The class attributes are the state; the tariff   *)
(* identifiers and the message texts are transliterated.                    *)
(***************************************************************************)
VARIABLES TARIFF_RATES, MIN_FARE, TRAFFIC_MULTIPLIERS, WEATHER_MULTIPLIERS,
          OVERLOAD_MULTIPLIERS, call, outcome

tables == <<TARIFF_RATES, MIN_FARE, TRAFFIC_MULTIPLIERS, WEATHER_MULTIPLIERS,
            OVERLOAD_MULTIPLIERS>>
vars == <<TARIFF_RATES, MIN_FARE, TRAFFIC_MULTIPLIERS, WEATHER_MULTIPLIERS,
          OVERLOAD_MULTIPLIERS, call, outcome>>

InitTariffRates ==
  << Item(PyStr("ekonom"), PyInt(100)),
     Item(PyStr("komfort"), PyInt(150)),
     Item(PyStr("komfort_plus"), PyInt(200)),
     Item(PyStr("biznes"), PyInt(300)) >>

InitMinFare == PyInt(50)

InitTrafficMultipliers ==
  << Item(PyInt(1), PyFloat(10, 1)),
     Item(PyInt(2), PyFloat(11, 1)),
     Item(PyInt(3), PyFloat(125, 2)),
     Item(PyInt(4), PyFloat(15, 1)),
     Item(PyInt(5), PyFloat(20, 1)) >>

\* a slip of the pen: 1.03 for 1.3
InitWeatherMultipliers_typo ==
  << Item(PyInt(1), PyFloat(10, 1)),
     Item(PyInt(2), PyFloat(105, 2)),
     Item(PyInt(3), PyFloat(115, 2)),
     Item(PyInt(4), PyFloat(103, 2)),
     Item(PyInt(5), PyFloat(15, 1)) >>

InitWeatherMultipliers ==
  << Item(PyInt(1), PyFloat(10, 1)),
     Item(PyInt(2), PyFloat(105, 2)),
     Item(PyInt(3), PyFloat(115, 2)),
     Item(PyInt(4), PyFloat(13, 1)),
     Item(PyInt(5), PyFloat(15, 1)) >>

InitOverloadMultipliers ==
  << Item(PyInt(1), PyFloat(10, 1)),
     Item(PyInt(2), PyFloat(11, 1)),
     Item(PyInt(3), PyFloat(125, 2)),
     Item(PyInt(4), PyFloat(15, 1)),
     Item(PyInt(5), PyFloat(20, 1)) >>

\* what `self' gives access to: the attributes of the class
Self == [TARIFF_RATES |-> TARIFF_RATES, MIN_FARE |-> MIN_FARE,
         TRAFFIC_MULTIPLIERS |-> TRAFFIC_MULTIPLIERS,
         WEATHER_MULTIPLIERS |-> WEATHER_MULTIPLIERS,
         OVERLOAD_MULTIPLIERS |-> OVERLOAD_MULTIPLIERS]

\* a slip: zero passes
validate_distance_zero_passes(self, distance) ==
  IF ~IsNumber(distance)
  THEN Raise("TypeError", "Rasstoyanie dolzhno byt chislom, polucheno", PyStr(distance.type))
  ELSE IF PyGt(PyInt(0), distance)
  THEN Raise("ValueError", "Rasstoyanie dolzhno byt polozhitelnym, polucheno", distance)
  ELSE Return(PyNone)

validate_distance(self, distance) ==
  IF ~IsNumber(distance)
  THEN Raise("TypeError", "Rasstoyanie dolzhno byt chislom, polucheno", PyStr(distance.type))
  ELSE IF PyLe(distance, PyInt(0))
  THEN Raise("ValueError", "Rasstoyanie dolzhno byt polozhitelnym, polucheno", distance)
  ELSE Return(PyNone)

\* `tariff not in self.TARIFF_RATES' hashes the tariff before it looks it up
validate_tariff(self, tariff) ==
  IF ~Hashable(tariff)
  THEN Raise("TypeError", "unhashable type", PyStr(tariff.type))
  ELSE IF ~DictHas(self.TARIFF_RATES, tariff)
  THEN Raise("ValueError", "Nepodderzhivaemyi tarif. Dostupnye",
             PyList(<<tariff, PyList(DictKeys(self.TARIFF_RATES))>>))
  ELSE Return(PyNone)

\* a slip: a Boolean is not taken for an integer
validate_rating_no_bool(self, rating, rating_type) ==
  IF rating.type # "int"
  THEN Raise("TypeError", "Reiting dolzhen byt tselym chislom, polucheno", PyStr(rating.type))
  ELSE IF ~(PyLe(PyInt(1), rating) /\ PyLe(rating, PyInt(5)))
  THEN Raise("ValueError", "Reiting dolzhen byt ot 1 do 5, polucheno",
             PyList(<<PyStr(rating_type), rating>>))
  ELSE Return(PyNone)

\* a slip: the range is checked before the type
validate_rating_range_first(self, rating, rating_type) ==
  IF IsNumber(rating) /\ ~(PyLe(PyInt(1), rating) /\ PyLe(rating, PyInt(5)))
  THEN Raise("ValueError", "Reiting dolzhen byt ot 1 do 5, polucheno",
             PyList(<<PyStr(rating_type), rating>>))
  ELSE IF ~IsInt(rating)
  THEN Raise("TypeError", "Reiting dolzhen byt tselym chislom, polucheno", PyStr(rating.type))
  ELSE Return(PyNone)

validate_rating(self, rating, rating_type) ==
  IF ~IsInt(rating)
  THEN Raise("TypeError", "Reiting dolzhen byt tselym chislom, polucheno", PyStr(rating.type))
  ELSE IF ~(PyLe(PyInt(1), rating) /\ PyLe(rating, PyInt(5)))
  THEN Raise("ValueError", "Reiting dolzhen byt ot 1 do 5, polucheno",
             PyList(<<PyStr(rating_type), rating>>))
  ELSE Return(PyNone)

\* the statements of calculate_fare from the base fare to the minimum fare
clamped_fare(self, distance, tariff, traffic_rating, weather_rating, overload_rating) ==
  LET base_rate           == DictGet(self.TARIFF_RATES, tariff)
      base_fare           == PyMul(distance, base_rate)
      traffic_multiplier  == DictGet(self.TRAFFIC_MULTIPLIERS, traffic_rating)
      weather_multiplier  == DictGet(self.WEATHER_MULTIPLIERS, weather_rating)
      overload_multiplier == DictGet(self.OVERLOAD_MULTIPLIERS, overload_rating)
      total_multiplier    == PyMul(PyMul(traffic_multiplier, weather_multiplier),
                                   overload_multiplier)
      fare                == PyMul(base_fare, total_multiplier)
  IN  PyMax(fare, self.MIN_FARE)

\* a slip: the factors are multiplied one after the other
compute_fare_flat(self, distance, tariff, traffic_rating, weather_rating, overload_rating) ==
  LET base_fare == PyMul(distance, DictGet(self.TARIFF_RATES, tariff))
      fare      == PyMul(PyMul(PyMul(base_fare,
                                     DictGet(self.TRAFFIC_MULTIPLIERS, traffic_rating)),
                               DictGet(self.WEATHER_MULTIPLIERS, weather_rating)),
                         DictGet(self.OVERLOAD_MULTIPLIERS, overload_rating))
  IN  Return(PyRound2(PyMax(fare, self.MIN_FARE)))

\* a slip: the fare is not rounded
compute_fare_unrounded(self, distance, tariff, traffic_rating, weather_rating, overload_rating) ==
  Return(clamped_fare(self, distance, tariff, traffic_rating, weather_rating,
                      overload_rating))

\* the statements of calculate_fare that follow the validation
compute_fare(self, distance, tariff, traffic_rating, weather_rating, overload_rating) ==
  Return(PyRound2(clamped_fare(self, distance, tariff, traffic_rating, weather_rating,
                               overload_rating)))

\* a slip: the tariff is validated before the distance
calculate_fare_tariff_first(self, distance, tariff, traffic_rating, weather_rating, overload_rating) ==
  LET v1 == validate_tariff(self, tariff)
      v2 == validate_distance(self, distance)
      v3 == validate_rating(self, traffic_rating, "probok")
      v4 == validate_rating(self, weather_rating, "nepogody")
      v5 == validate_rating(self, overload_rating, "sprosa")
  IN  IF v1.kind = "raise" THEN v1
      ELSE IF v2.kind = "raise" THEN v2
      ELSE IF v3.kind = "raise" THEN v3
      ELSE IF v4.kind = "raise" THEN v4
      ELSE IF v5.kind = "raise" THEN v5
      ELSE compute_fare(self, distance, tariff, traffic_rating, weather_rating,
                        overload_rating)

calculate_fare(self, distance, tariff, traffic_rating, weather_rating, overload_rating) ==
  LET v1 == validate_distance(self, distance)
      v2 == validate_tariff(self, tariff)
      v3 == validate_rating(self, traffic_rating, "probok")
      v4 == validate_rating(self, weather_rating, "nepogody")
      v5 == validate_rating(self, overload_rating, "sprosa")
  IN  IF v1.kind = "raise" THEN v1
      ELSE IF v2.kind = "raise" THEN v2
      ELSE IF v3.kind = "raise" THEN v3
      ELSE IF v4.kind = "raise" THEN v4
      ELSE IF v5.kind = "raise" THEN v5
      ELSE compute_fare(self, distance, tariff, traffic_rating, weather_rating,
                        overload_rating)

\* a slip: the tariffs are listed sorted by name (biznes, komfort, ...)
get_tariff_info_sorted(self) ==
  Return([type |-> "dict",
          tarify |-> PyList(<<DictKeys(self.TARIFF_RATES)[4], DictKeys(self.TARIFF_RATES)[2],
                              DictKeys(self.TARIFF_RATES)[3], DictKeys(self.TARIFF_RATES)[1]>>),
          stavki |-> [type |-> "ref", to |-> "TaxiCalculator.TARIFF_RATES"],
          minimalnaya_stoimost |-> self.MIN_FARE])

\* 'stavki' is the class's own dict, 'tarify' a new list of its keys
get_tariff_info(self) ==
  Return([type |-> "dict",
          tarify |-> PyList(DictKeys(self.TARIFF_RATES)),
          stavki |-> [type |-> "ref", to |-> "TaxiCalculator.TARIFF_RATES"],
          minimalnaya_stoimost |-> self.MIN_FARE])

(***************************************************************************)
(* The arguments the calls are made with                                   *)
(***************************************************************************)
\* distances 0.1 .. MaxTenths/10 are tried besides the ones of the tests
MaxTenths == 2

\* an argument left out of the call, and the default the signature gives it
Omitted == [type |-> "omitted"]
Bind(x, default) == IF x.type = "omitted" THEN default ELSE x

PositiveDistances ==
  {PyInt(1), PyInt(10), PyFloat(55, 1), PyFloat(333, 2), PyFloat(1, 3),
   PyFloat(9, 1), PyFloat(12345, 4)}
    \cup {PyFloat(n, 1) : n \in 1..MaxTenths}

OddDistances ==
  {PyInt(0), PyInt(-5), PyFloat(0, 1), PyFloat(-5, 1), PyFloatOf(DInf(FALSE)),
   PyFloatOf(DInf(TRUE)), PyFloatOf(DNaN), PyStr("10 km"), PyNone,
   PyBool(TRUE), PyBool(FALSE)}

Distances == PositiveDistances \cup OddDistances

CatalogTariffs ==
  {PyStr("ekonom"), PyStr("komfort"), PyStr("komfort_plus"), PyStr("biznes")}

OddTariffs ==
  {PyStr("premium"), PyStr(""), PyNone, PyInt(1), PyList(<<PyStr("ekonom")>>),
   PyBool(TRUE), PyBool(FALSE)}

Tariffs == CatalogTariffs \cup OddTariffs

Ratings == {PyInt(n) : n \in 1..5}

OddRatings ==
  {PyInt(0), PyInt(6), PyInt(-1), PyFloat(30, 1), PyFloat(35, 1), PyFloat(60, 1),
   PyFloatOf(DNaN), PyStr("3"), PyNone, PyBool(TRUE), PyBool(FALSE)}

RatingTypes == {"traffic", "probok", "nepogody", "sprosa"}

\* every positive distance with every tariff and rating of the tables, and a
\* mix of good and bad arguments
ProbeDistances == {PyInt(10), PyFloat(1, 1)} \cup OddDistances
ProbeTariffs == {PyStr("ekonom"), PyStr("premium"), PyList(<<PyStr("ekonom")>>)}
ProbeRatings == {Omitted, PyInt(5), PyInt(0), PyFloat(30, 1), PyStr("3"), PyBool(TRUE)}

\* requests with True and False in every place
Booleans == {PyBool(TRUE), PyBool(FALSE)}
BooleanRequests ==
  ({PyInt(10)} \cup Booleans) \X ({PyStr("ekonom")} \cup Booleans)
    \X ({PyInt(1)} \cup Booleans) \X ({PyInt(1)} \cup Booleans)
    \X ({PyInt(1)} \cup Booleans)

Requests ==
  (PositiveDistances \X CatalogTariffs \X Ratings \X Ratings \X Ratings)
    \cup (ProbeDistances \X ProbeTariffs \X ProbeRatings \X ProbeRatings \X ProbeRatings)
    \cup BooleanRequests

(***************************************************************************)
(* The calls.  A caller makes one call at a time: `call' is the call that  *)
(* has ended and `outcome' how it ended, until the caller goes on.         *)
(***************************************************************************)
Idle == [op |-> "none", args |-> <<>>]
NoOutcome == [kind |-> "none"]

Init ==
  /\ TARIFF_RATES = InitTariffRates
  /\ MIN_FARE = InitMinFare
  /\ TRAFFIC_MULTIPLIERS = InitTrafficMultipliers
  /\ WEATHER_MULTIPLIERS = InitWeatherMultipliers
  /\ OVERLOAD_MULTIPLIERS = InitOverloadMultipliers
  /\ call = Idle
  /\ outcome = NoOutcome

ValidateDistance ==
  /\ call = Idle
  /\ \E distance \in Distances :
    /\ call' = [op |-> "validate_distance", args |-> <<distance>>]
    /\ outcome' = validate_distance(Self, distance)
    /\ UNCHANGED tables

ValidateTariff ==
  /\ call = Idle
  /\ \E tariff \in Tariffs :
    /\ call' = [op |-> "validate_tariff", args |-> <<tariff>>]
    /\ outcome' = validate_tariff(Self, tariff)
    /\ UNCHANGED tables

ValidateRating ==
  /\ call = Idle
  /\ \E rating \in Ratings \cup OddRatings, rating_type \in {Omitted} \cup {PyStr(t) : t \in RatingTypes} :
    /\ call' = [op |-> "validate_rating", args |-> <<rating, rating_type>>]
    /\ outcome' = validate_rating(Self, rating, Bind(rating_type, PyStr("traffic")).s)
    /\ UNCHANGED tables

\* a slip: the fare is kept as the new minimum fare
CalculateFare_keeps_fare ==
  /\ call = Idle
  /\ \E req \in Requests :
    /\ call' = [op |-> "calculate_fare", args |-> req]
    /\ outcome' = calculate_fare(Self, req[1], req[2], Bind(req[3], PyInt(1)),
                                 Bind(req[4], PyInt(1)), Bind(req[5], PyInt(1)))
    /\ MIN_FARE' = IF outcome'.kind = "return" THEN outcome'.value ELSE MIN_FARE
    /\ UNCHANGED <<TARIFF_RATES, TRAFFIC_MULTIPLIERS, WEATHER_MULTIPLIERS,
                   OVERLOAD_MULTIPLIERS>>

CalculateFare ==
  /\ call = Idle
  /\ \E req \in Requests :
    /\ call' = [op |-> "calculate_fare", args |-> req]
    /\ outcome' = calculate_fare(Self, req[1], req[2], Bind(req[3], PyInt(1)),
                                 Bind(req[4], PyInt(1)), Bind(req[5], PyInt(1)))
    /\ UNCHANGED tables

GetTariffInfo ==
  /\ call = Idle
  /\ call' = [op |-> "get_tariff_info", args |-> <<>>]
  /\ outcome' = get_tariff_info(Self)
  /\ UNCHANGED tables

\* the caller has used the outcome and goes on to its next call
Continue ==
  /\ call # Idle
  /\ call' = Idle
  /\ outcome' = NoOutcome
  /\ UNCHANGED tables

Next ==
  \/ ValidateDistance
  \/ ValidateTariff
  \/ ValidateRating
  \/ CalculateFare
  \/ GetTariffInfo
  \/ Continue

Spec == Init /\ [][Next]_vars

(***************************************************************************)
(* What the claims speak of.  An arithmetic expression of a claim is read  *)
(* in the arithmetic of the program (binary64, evaluated left to right)    *)
(* and, where said, as the exact product of the argument values and the    *)
(* decimal entries of the tables.                                          *)
(***************************************************************************)
FareCall == call.op = "calculate_fare"
ArgDistance == call.args[1]
ArgTariff == call.args[2]
ArgTraffic == call.args[3]
ArgWeather == call.args[4]
ArgOverload == call.args[5]

\* the tables of the specification: rates per km, multipliers in hundredths
SpecTariffs == {"ekonom", "komfort", "komfort_plus", "biznes"}
SpecRates == [ekonom |-> 100, komfort |-> 150, komfort_plus |-> 200, biznes |-> 300]
SpecMinFare == 50
SpecTraffic == <<100, 110, 125, 150, 200>>
SpecWeather == <<100, 105, 115, 130, 150>>
SpecDemand == <<100, 110, 125, 150, 200>>

\* a number above zero (a Boolean counts as the integer it is)
PositiveNumber(x) == x.type \in {"int", "bool", "float"} /\ PyGt(x, PyInt(0))
InCatalog(x) == x.type = "str" /\ x.s \in SpecTariffs
RatingInRange(x) == x.type \in {"int", "bool"} /\ x.v \in 1..5

\* a call of calculate_fare with all five arguments given and valid
ValidRequest ==
  /\ FareCall
  /\ PositiveNumber(ArgDistance)
  /\ InCatalog(ArgTariff)
  /\ RatingInRange(ArgTraffic) /\ RatingInRange(ArgWeather) /\ RatingInRange(ArgOverload)

RateOf(tariff) == PyInt(SpecRates[tariff.s])
TrafficOf(rating) == PyFloat(SpecTraffic[rating.v], 2)
WeatherOf(rating) == PyFloat(SpecWeather[rating.v], 2)
DemandOf(rating) == PyFloat(SpecDemand[rating.v], 2)

\* round2(max(d * rate * traffic * weather * demand, 50)), left to right
FlatFare(d, t, a, b, o) ==
  PyRound2(PyMax(PyMul(PyMul(PyMul(PyMul(d, RateOf(t)), TrafficOf(a)), WeatherOf(b)),
                       DemandOf(o)), PyInt(SpecMinFare)))

\* round2(max((d * rate) * ((traffic * weather) * demand), 50))
GroupedFare(d, t, a, b, o) ==
  PyRound2(PyMax(PyMul(PyMul(d, RateOf(t)),
                       PyMul(PyMul(TrafficOf(a), WeatherOf(b)), DemandOf(o))),
                 PyInt(SpecMinFare)))

Finite(x) == IsInt(x) \/ (x.type = "float" /\ x.d.cls = "finite")

\* a finite positive number as m * 2^(-k) or m * 2^k
Significand(x) == IF IsInt(x) THEN BFromInt(x.v) ELSE x.d.m
Exponent(x) == IF IsInt(x) THEN 0 ELSE x.d.e

\* the whole number of hundredths nearest to x
Hundredths(x) ==
  IF IsInt(x) THEN BFromInt(100 * x.v)
  ELSE IF x.d.e >= 0 THEN BShiftL(BMulSmall(x.d.m, 100), x.d.e)
  ELSE BRoundShift(BMulSmall(x.d.m, 100), -x.d.e, FALSE)

\* x is a whole number of hundredths, as far as a float can be: it is the
\* float of the decimal h/100
TwoDecimals(x) ==
  /\ Finite(x)
  /\ IsInt(x) \/ x.d = DecToDouble(x.d.neg, Hundredths(x), 2)

BDiff(a, b) == IF BCmp(a, b) >= 0 THEN BSub(a, b) ELSE BSub(b, a)

\* v is max(P, 50) rounded to the nearest hundredth, half to even or half up,
\* where P is the exact product d * rate * traffic * weather * demand.  P is a
\* tie when it is within a millionth of a half hundredth of the middle
\* between two hundredths, which allows for the float d being a little off the
\* decimal it was written as
ExactFare(v, d, t, a, b, o) ==
  IF ~Finite(d) THEN v.type = "float" /\ v.d.cls = "inf"
  ELSE
  LET e    == Exponent(d)
      k    == IF e < 0 THEN -e ELSE 0
      \* P * 10^6 * 2^k
      N    == BShiftL(BMulSmall(BMulSmall(BMulSmall(BMulSmall(Significand(d),
                        SpecRates[t.s]), SpecTraffic[a.v]), SpecWeather[b.v]),
                        SpecDemand[o.v]), IF e > 0 THEN e ELSE 0)
      one  == BShiftL(BFromInt(1000000), k)
      H    == Hundredths(v)
      \* H/100 * 10^6 * 2^k
      V    == BShiftL(BMulPow10(H, 4), k)
      \* |H/100 - P| in units of 1/200
      off  == BMulSmall(BDiff(V, N), 200)
      tie  == BCmp(BMulPow10(BDiff(off, one), 6), one) <= 0
  IN  /\ TwoDecimals(v)
      /\ IF BCmp(N, BMulSmall(one, SpecMinFare)) <= 0
         THEN H = BFromInt(100 * SpecMinFare)
         ELSE IF tie THEN ~BOdd(H) \/ BCmp(V, N) > 0
         ELSE BCmp(off, one) <= 0

\* |x - y| <= 1/1000000, for two finite numbers above zero
CloseTo(x, y) ==
  LET ex  == Exponent(x)
      ey  == Exponent(y)
      m   == IF ex < ey THEN ex ELSE ey
      low == IF m < 0 THEN m ELSE 0
  IN  BCmp(BMulPow10(BDiff(BShiftL(Significand(x), ex - low),
                           BShiftL(Significand(y), ey - low)), 6),
           BShiftL(<<1>>, -low)) <= 0

\* C1 as it is written: every valid request returns round2(max(d * rate *
\* traffic * weather * demand, 50)) with the rates and multipliers of the
\* specification's tables, the product read left to right in floats, or as
\* the exact product rounded half to even or half up
C1_FlatProductFare ==
  ValidRequest =>
    /\ outcome.kind = "return"
    /\ \/ PyEq(outcome.value, FlatFare(ArgDistance, ArgTariff, ArgTraffic, ArgWeather,
                                        ArgOverload))
       \/ ExactFare(outcome.value, ArgDistance, ArgTariff, ArgTraffic, ArgWeather,
                    ArgOverload)

\* the worked scenarios of the specification
Scenario(d, t, a, b, o, fare) ==
  call = [op |-> "calculate_fare", args |-> <<d, PyStr(t), a, b, o>>]
    => outcome.kind = "return" /\ PyEq(outcome.value, fare)

WorkedScenarios ==
  /\ Scenario(PyInt(10), "ekonom", PyInt(1), PyInt(1), PyInt(1), PyInt(1000))
  /\ Scenario(PyInt(10), "ekonom", PyInt(4), PyInt(3), PyInt(2), PyFloat(18975, 1))
  /\ Scenario(PyInt(1), "komfort_plus", PyInt(5), PyInt(5), PyInt(5), PyInt(1200))

\* C1 amended: every valid request returns round2(max((d * rate) * ((traffic *
\* weather) * demand), 50)), the product evaluated in floats in this grouping
\* and round2 being Python's round(x, 2); the worked scenarios come out as
\* 1000.0, 1897.5 and 1200.0
C1_GroupedProductFare ==
  /\ ValidRequest =>
       /\ outcome.kind = "return"
       /\ PyEq(outcome.value, GroupedFare(ArgDistance, ArgTariff, ArgTraffic, ArgWeather,
                                          ArgOverload))
  /\ WorkedScenarios

\* 10 km ekonom with ratings 4/3/2 has been priced at 1897.5
C1_Witness ==
  /\ call = [op |-> "calculate_fare",
             args |-> <<PyInt(10), PyStr("ekonom"), PyInt(4), PyInt(3), PyInt(2)>>]
  /\ outcome = Return(PyFloat(18975, 1))

\* C2: whenever calculate_fare returns a value, the value is at least the
\* minimum fare, 50
C2_FareAtLeastMinimum ==
  (FareCall /\ outcome.kind = "return") => PyLe(PyInt(SpecMinFare), outcome.value)

\* the errors the five validations give for the arguments of the call, in the
\* order distance, tariff, traffic, weather, demand
ArgumentChecks ==
  << validate_distance(Self, ArgDistance),
     validate_tariff(Self, ArgTariff),
     validate_rating(Self, Bind(ArgTraffic, PyInt(1)), "probok"),
     validate_rating(Self, Bind(ArgWeather, PyInt(1)), "nepogody"),
     validate_rating(Self, Bind(ArgOverload, PyInt(1)), "sprosa") >>

InvalidArguments == {i \in 1..5 : ArgumentChecks[i].kind = "raise"}

\* C3: calculate_fare ends with the error of the first invalid argument in the
\* order distance, tariff, traffic, weather, demand, with that error alone
\* and without a fare; it returns a fare only when no argument is invalid
C3_FirstInvalidArgument ==
  FareCall =>
    IF InvalidArguments = {} THEN outcome.kind = "return"
    ELSE outcome = ArgumentChecks[CHOOSE i \in InvalidArguments :
                                    \A j \in InvalidArguments : i <= j]

\* all five arguments were invalid and the error is the distance's
C3_Witness ==
  /\ call = [op |-> "calculate_fare",
             args |-> <<PyInt(0), PyStr("premium"), PyInt(0), PyStr("3"), PyFloat(30, 1)>>]
  /\ outcome.kind = "raise" /\ outcome.exc = "ValueError" /\ outcome.arg = PyInt(0)

\* C4: validate_distance raises TypeError for a value that is no int and no
\* float (a Boolean is an int), ValueError for a number <= 0, zero included,
\* and returns for a number > 0; a non-number never gets as far as the range
C4_ValidateDistance ==
  call.op = "validate_distance" =>
    LET x == call.args[1]
    IN  IF x.type \notin {"int", "bool", "float"}
        THEN outcome.kind = "raise" /\ outcome.exc = "TypeError"
        ELSE IF PyLe(x, PyInt(0))
        THEN outcome.kind = "raise" /\ outcome.exc = "ValueError"
        ELSE PyGt(x, PyInt(0)) => outcome = Return(PyNone)

\* validate_distance(0) has raised ValueError
C4_Witness ==
  /\ call = [op |-> "validate_distance", args |-> <<PyInt(0)>>]
  /\ outcome.kind = "raise" /\ outcome.exc = "ValueError"

\* C5: validate_rating raises TypeError for a value that is no int, a whole
\* float such as 3.0 and a float outside [1,5] included, ValueError for an int
\* outside [1,5], and returns for the ints 1..5
C5_ValidateRating ==
  call.op = "validate_rating" =>
    LET x == call.args[1]
    IN  IF x.type \notin {"int", "bool"}
        THEN outcome.kind = "raise" /\ outcome.exc = "TypeError"
        ELSE IF x.v \notin 1..5
        THEN outcome.kind = "raise" /\ outcome.exc = "ValueError"
        ELSE outcome = Return(PyNone)

\* validate_rating(6.0) has raised TypeError
C5_Witness ==
  /\ call.op = "validate_rating" /\ call.args[1] = PyFloat(60, 1)
  /\ outcome.kind = "raise" /\ outcome.exc = "TypeError"

\* C6: validate_tariff returns for the four tariffs of the catalog and raises
\* ValueError, never TypeError, for anything else
C6_ValidateTariff ==
  call.op = "validate_tariff" =>
    IF InCatalog(call.args[1]) THEN outcome = Return(PyNone)
    ELSE outcome.kind = "raise" /\ outcome.exc = "ValueError"

\* the fare of the call is not above the one that calculate_fare gives now
\* for the arguments d, t, a, b, o
NotAbove(d, t, a, b, o) ==
  LET other == calculate_fare(Self, d, t, a, b, o)
  IN  other.kind = "return" /\ PyLe(outcome.value, other.value)

\* C7: for a valid request, a higher traffic, weather or demand rating, the
\* other two ratings being the same, never gives a lower fare
C7_MonotoneInRatings ==
  ValidRequest =>
    /\ outcome.kind = "return"
    /\ \A r \in 1..5 :
         /\ r > ArgTraffic.v =>
              NotAbove(ArgDistance, ArgTariff, PyInt(r), ArgWeather, ArgOverload)
         /\ r > ArgWeather.v =>
              NotAbove(ArgDistance, ArgTariff, ArgTraffic, PyInt(r), ArgOverload)
         /\ r > ArgOverload.v =>
              NotAbove(ArgDistance, ArgTariff, ArgTraffic, ArgWeather, PyInt(r))

\* a fare that a higher weather rating makes strictly higher
C7_Witness ==
  /\ ValidRequest /\ outcome.kind = "return"
  /\ ArgWeather.v = 3
  /\ LET other == calculate_fare(Self, ArgDistance, ArgTariff, ArgTraffic, PyInt(4),
                                 ArgOverload)
     IN  other.kind = "return" /\ PyGt(other.value, outcome.value)

AllRatingsOne == ArgTraffic = PyInt(1) /\ ArgWeather = PyInt(1) /\ ArgOverload = PyInt(1)
AllRatingsOmitted == ArgTraffic = Omitted /\ ArgWeather = Omitted /\ ArgOverload = Omitted

\* a call without the three ratings ends as the same call with 1, 1, 1 ends
OmittedIsOne ==
  (FareCall /\ AllRatingsOmitted) =>
    outcome = calculate_fare(Self, ArgDistance, ArgTariff, PyInt(1), PyInt(1), PyInt(1))

\* C8 as it is written: with all ratings 1 the fare is max(d * rate, 50), in
\* floats or, to a millionth, exactly; and leaving the ratings out is passing 1
\* for each
C8_UnroundedBaseFare ==
  /\ (ValidRequest /\ AllRatingsOne) =>
       /\ outcome.kind = "return"
       /\ LET unrounded == PyMax(PyMul(ArgDistance, RateOf(ArgTariff)), PyInt(SpecMinFare))
          IN  \/ PyEq(outcome.value, unrounded)
              \/ Finite(unrounded) /\ Finite(outcome.value)
                   /\ CloseTo(outcome.value, unrounded)
  /\ OmittedIsOne

\* C8 amended: with all ratings 1 the fare is round2(max(d * rate, 50)), which
\* is max(d * rate, 50) only when that has no more than two decimals; and
\* leaving the ratings out is passing 1 for each
C8_RoundedBaseFare ==
  /\ (ValidRequest /\ AllRatingsOne) =>
       /\ outcome.kind = "return"
       /\ PyEq(outcome.value,
               PyRound2(PyMax(PyMul(ArgDistance, RateOf(ArgTariff)), PyInt(SpecMinFare))))
  /\ OmittedIsOne

\* 1.2345 km komfort at ratings 1 has been priced at 185.17, not 185.175
C8_Witness ==
  /\ call = [op |-> "calculate_fare",
             args |-> <<PyFloat(12345, 4), PyStr("komfort"), PyInt(1), PyInt(1), PyInt(1)>>]
  /\ outcome = Return(PyFloat(18517, 2))

\* |h/100 - x| <= 1/200 for the whole number of hundredths h and the number x
WithinHalfHundredth(h, x) ==
  LET e == Exponent(x)
      k == IF e < 0 THEN -e ELSE 0
      X == BShiftL(BMulSmall(Significand(x), 100), IF e > 0 THEN e ELSE 0)
  IN  BCmp(BMulSmall(BDiff(BShiftL(h, k), X), 2), BShiftL(<<1>>, k)) <= 0

\* C9: the fare returned is a whole number of hundredths, and it is within half
\* a hundredth of the fare as it was after the minimum and before the rounding
C9_TwoDecimalFare ==
  (FareCall /\ outcome.kind = "return") =>
    LET unrounded == clamped_fare(Self, ArgDistance, ArgTariff, Bind(ArgTraffic, PyInt(1)),
                                  Bind(ArgWeather, PyInt(1)), Bind(ArgOverload, PyInt(1)))
    IN  /\ TwoDecimals(outcome.value)
        /\ Finite(unrounded)
        /\ WithinHalfHundredth(Hundredths(outcome.value), unrounded)

InitSelf == [TARIFF_RATES |-> InitTariffRates, MIN_FARE |-> InitMinFare,
             TRAFFIC_MULTIPLIERS |-> InitTrafficMultipliers,
             WEATHER_MULTIPLIERS |-> InitWeatherMultipliers,
             OVERLOAD_MULTIPLIERS |-> InitOverloadMultipliers]

\* C10: wherever in a sequence of calls calculate_fare is called, it ends as
\* its arguments alone decide, so the same for the same arguments; and the
\* catalog, the multiplier tables and the minimum fare are what they were
C10_SameInputsSameOutcome ==
  /\ Self = InitSelf
  /\ FareCall =>
       outcome = calculate_fare(InitSelf, ArgDistance, ArgTariff, Bind(ArgTraffic, PyInt(1)),
                                Bind(ArgWeather, PyInt(1)), Bind(ArgOverload, PyInt(1)))

\* 5.5 km ekonom has been priced at 550.0 with the tables as they were
C10_Witness ==
  /\ call = [op |-> "calculate_fare",
             args |-> <<PyFloat(55, 1), PyStr("ekonom"), PyInt(1), PyInt(1), PyInt(1)>>]
  /\ outcome = Return(PyFloat(5500, 1))
  /\ Self = InitSelf

\* the tariffs of the specification in the order the catalog lists them
SpecTariffOrder == <<"ekonom", "komfort", "komfort_plus", "biznes">>

InfoCall == call.op = "get_tariff_info"

\* the dict a reference of a returned record leads to
Deref(ref) == IF ref.to = "TaxiCalculator.TARIFF_RATES" THEN TARIFF_RATES ELSE <<>>

\* C11: get_tariff_info returns the four tariffs in catalog order, the rate
\* mapping with the rates 100, 150, 200, 300 of these tariffs, and the minimum
\* fare 50; the list is the key set of the mapping, and validate_tariff
\* accepts every tariff of the list
C11_TariffInfo ==
  InfoCall =>
    /\ outcome.kind = "return"
    /\ LET info   == outcome.value
           tarify == info.tarify.items
           stavki == Deref(info.stavki)
       IN  /\ info.tarify.type = "list"
           /\ tarify = [i \in 1..4 |-> PyStr(SpecTariffOrder[i])]
           /\ Len(stavki) = 4
           /\ \A i \in 1..4 :
                /\ stavki[i].key = PyStr(SpecTariffOrder[i])
                /\ stavki[i].value = PyInt(SpecRates[SpecTariffOrder[i]])
           /\ {tarify[i] : i \in 1..Len(tarify)} = {stavki[i].key : i \in 1..Len(stavki)}
           /\ info.minimalnaya_stoimost = PyInt(SpecMinFare)
           /\ \A i \in 1..Len(tarify) : validate_tariff(Self, tarify[i]) = Return(PyNone)

\* get_tariff_info has returned a record that lists biznes last
C11_Witness ==
  /\ InfoCall
  /\ outcome.kind = "return"
  /\ outcome.value.tarify.items[4] = PyStr("biznes")

(***************************************************************************)
(* A caller that writes to what get_tariff_info returned.  While the call  *)
(* is the last one made, `outcome' is the record the caller holds: its     *)
(* 'tarify' is a list of the caller's own, its 'stavki' is the dict of the *)
(* class, so that a write to it is a write to TARIFF_RATES.                *)
(***************************************************************************)
\* d[k] = v: the value of a key is replaced in place, a new key goes last
DictSet(d, k, v) ==
  IF DictHas(d, k)
  THEN [i \in 1..Len(d) |-> IF KeyEq(d[i].key, k) THEN Item(d[i].key, v) ELSE d[i]]
  ELSE Append(d, Item(k, v))

\* del d[k], for a key of d
DictDel(d, k) == LET Other(it) == ~KeyEq(it.key, k) IN SelectSeq(d, Other)

HoldsInfo == call.op = "get_tariff_info" /\ outcome.kind = "return"

CallerRates == {PyInt(0)}
CallerTariffs == {PyStr("premium")}
CallerRequests ==
  {PyInt(10)} \X (CatalogTariffs \cup CallerTariffs) \X {PyInt(1), PyInt(5)}
    \X {Omitted} \X {Omitted}

\* info['stavki'][tariff] = rate, for a tariff of the catalog
CallerSetsRate ==
  /\ HoldsInfo
  /\ \E tariff \in CatalogTariffs, rate \in CallerRates :
    /\ DictHas(Deref(outcome.value.stavki), tariff)
    /\ TARIFF_RATES' = DictSet(Deref(outcome.value.stavki), tariff, rate)
    /\ UNCHANGED <<MIN_FARE, TRAFFIC_MULTIPLIERS, WEATHER_MULTIPLIERS,
                   OVERLOAD_MULTIPLIERS, call, outcome>>

\* info['stavki'][tariff] = 500, for a tariff the catalog has not
CallerAddsTariff ==
  /\ HoldsInfo
  /\ \E tariff \in CallerTariffs :
    /\ ~DictHas(Deref(outcome.value.stavki), tariff)
    /\ TARIFF_RATES' = DictSet(Deref(outcome.value.stavki), tariff, PyInt(500))
    /\ UNCHANGED <<MIN_FARE, TRAFFIC_MULTIPLIERS, WEATHER_MULTIPLIERS,
                   OVERLOAD_MULTIPLIERS, call, outcome>>

\* del info['stavki'][tariff]
CallerRemovesTariff ==
  /\ HoldsInfo
  /\ \E tariff \in CatalogTariffs \cup CallerTariffs :
    /\ DictHas(Deref(outcome.value.stavki), tariff)
    /\ TARIFF_RATES' = DictDel(Deref(outcome.value.stavki), tariff)
    /\ UNCHANGED <<MIN_FARE, TRAFFIC_MULTIPLIERS, WEATHER_MULTIPLIERS,
                   OVERLOAD_MULTIPLIERS, call, outcome>>

\* info['tarify'].append(tariff) and info['tarify'].pop(), on a list that
\* keeps between three and five entries
CallerEditsList ==
  /\ HoldsInfo
  /\ LET tarify == outcome.value.tarify.items
     IN  \/ /\ Len(tarify) < 5
            /\ \E tariff \in CallerTariffs :
                 outcome' = [outcome EXCEPT !.value.tarify.items = Append(tarify, tariff)]
         \/ /\ Len(tarify) > 3
            /\ outcome' = [outcome EXCEPT
                             !.value.tarify.items = SubSeq(tarify, 1, Len(tarify) - 1)]
  /\ UNCHANGED <<tables, call>>

\* validate_tariff, called by this caller
CallerValidatesTariff ==
  /\ call = Idle
  /\ \E tariff \in CatalogTariffs \cup CallerTariffs :
    /\ call' = [op |-> "validate_tariff", args |-> <<tariff>>]
    /\ outcome' = validate_tariff(Self, tariff)
    /\ UNCHANGED tables

\* calculate_fare, called by this caller
CallerCalculatesFare ==
  /\ call = Idle
  /\ \E req \in CallerRequests :
    /\ call' = [op |-> "calculate_fare", args |-> req]
    /\ outcome' = calculate_fare(Self, req[1], req[2], Bind(req[3], PyInt(1)),
                                 Bind(req[4], PyInt(1)), Bind(req[5], PyInt(1)))
    /\ UNCHANGED tables

NextCaller ==
  \/ GetTariffInfo
  \/ CallerSetsRate
  \/ CallerAddsTariff
  \/ CallerRemovesTariff
  \/ CallerEditsList
  \/ CallerValidatesTariff
  \/ CallerCalculatesFare
  \/ Continue

SpecCaller == Init /\ [][NextCaller]_vars

\* C12: whatever the caller does to the record get_tariff_info returned, the
\* catalog stays as it was, and validate_tariff and calculate_fare go on to
\* end as they do with the catalog as it was
C12_CatalogStaysStatic ==
  /\ TARIFF_RATES = InitTariffRates
  /\ call.op = "validate_tariff" => outcome = validate_tariff(InitSelf, call.args[1])
  /\ FareCall =>
       outcome = calculate_fare(InitSelf, ArgDistance, ArgTariff, Bind(ArgTraffic, PyInt(1)),
                                Bind(ArgWeather, PyInt(1)), Bind(ArgOverload, PyInt(1)))

IsBool(x) == x.type = "bool"

\* the integer a Boolean stands for; any other argument as it is
AsInteger(x) == IF IsBool(x) THEN PyInt(x.v) ELSE x

\* two outcomes that are the same return value (the same number of the same
\* type, nan for nan), or an error of the same kind with the same message
SameOutcome(o1, o2) ==
  /\ o1.kind = o2.kind
  /\ o1.kind = "return" => o1.value = o2.value
  /\ o1.kind = "raise" => o1.exc = o2.exc /\ o1.text = o2.text

\* C13: the guards take a Boolean for the integer it is.  validate_rating and
\* validate_distance accept True and reject False with a ValueError,
\* calculate_fare ends as it does with 1 for True and 0 for False, and no
\* TypeError is ever about a Boolean
C13_BooleansAreIntegers ==
  /\ (call.op = "validate_rating" /\ IsBool(call.args[1])) =>
       IF call.args[1].v = 1 THEN outcome = Return(PyNone)
       ELSE outcome.kind = "raise" /\ outcome.exc = "ValueError"
  /\ (call.op = "validate_distance" /\ IsBool(call.args[1])) =>
       IF call.args[1].v = 1 THEN outcome = Return(PyNone)
       ELSE outcome.kind = "raise" /\ outcome.exc = "ValueError"
  /\ (call.op = "validate_tariff" /\ IsBool(call.args[1])) =>
       outcome.kind = "raise" /\ outcome.exc = "ValueError"
  /\ (FareCall /\ \E i \in 1..5 : IsBool(call.args[i])) =>
       SameOutcome(outcome,
                   calculate_fare(Self, AsInteger(ArgDistance), AsInteger(ArgTariff),
                                  AsInteger(Bind(ArgTraffic, PyInt(1))),
                                  AsInteger(Bind(ArgWeather, PyInt(1))),
                                  AsInteger(Bind(ArgOverload, PyInt(1)))))
  /\ (outcome.kind = "raise" /\ outcome.exc = "TypeError") => outcome.arg # PyStr("bool")

\* 10 km ekonom with True for all three ratings has been priced at 1000.0
C13_Witness ==
  /\ call = [op |-> "calculate_fare",
             args |-> <<PyInt(10), PyStr("ekonom"), PyBool(TRUE), PyBool(TRUE), PyBool(TRUE)>>]
  /\ outcome = Return(PyFloat(10000, 1))

(***************************************************************************)
(* The TaxiCalculator class that script.py holds as text                   *)
(* (taxi_calculator_code), with class attributes of its own.               *)
(***************************************************************************)
ScriptTariffRates ==
  << Item(PyStr("ekonom"), PyInt(100)),
     Item(PyStr("komfort"), PyInt(150)),
     Item(PyStr("komfort_plus"), PyInt(200)),
     Item(PyStr("biznes"), PyInt(300)) >>

ScriptMinFare == PyInt(50)

\* a slip: 1.4 for 1.5
ScriptTrafficMultipliers_slip ==
  << Item(PyInt(1), PyFloat(10, 1)),
     Item(PyInt(2), PyFloat(11, 1)),
     Item(PyInt(3), PyFloat(125, 2)),
     Item(PyInt(4), PyFloat(14, 1)),
     Item(PyInt(5), PyFloat(20, 1)) >>

ScriptTrafficMultipliers ==
  << Item(PyInt(1), PyFloat(10, 1)),
     Item(PyInt(2), PyFloat(11, 1)),
     Item(PyInt(3), PyFloat(125, 2)),
     Item(PyInt(4), PyFloat(15, 1)),
     Item(PyInt(5), PyFloat(20, 1)) >>

ScriptWeatherMultipliers ==
  << Item(PyInt(1), PyFloat(10, 1)),
     Item(PyInt(2), PyFloat(105, 2)),
     Item(PyInt(3), PyFloat(115, 2)),
     Item(PyInt(4), PyFloat(13, 1)),
     Item(PyInt(5), PyFloat(15, 1)) >>

ScriptOverloadMultipliers ==
  << Item(PyInt(1), PyFloat(10, 1)),
     Item(PyInt(2), PyFloat(11, 1)),
     Item(PyInt(3), PyFloat(125, 2)),
     Item(PyInt(4), PyFloat(15, 1)),
     Item(PyInt(5), PyFloat(20, 1)) >>

ScriptSelf == [TARIFF_RATES |-> ScriptTariffRates, MIN_FARE |-> ScriptMinFare,
               TRAFFIC_MULTIPLIERS |-> ScriptTrafficMultipliers,
               WEATHER_MULTIPLIERS |-> ScriptWeatherMultipliers,
               OVERLOAD_MULTIPLIERS |-> ScriptOverloadMultipliers]

Script_validate_distance(self, distance) ==
  IF ~IsNumber(distance)
  THEN Raise("TypeError", "Rasstoyanie dolzhno byt chislom, polucheno", PyStr(distance.type))
  ELSE IF PyLe(distance, PyInt(0))
  THEN Raise("ValueError", "Rasstoyanie dolzhno byt polozhitelnym, polucheno", distance)
  ELSE Return(PyNone)

Script_validate_tariff(self, tariff) ==
  IF ~Hashable(tariff)
  THEN Raise("TypeError", "unhashable type", PyStr(tariff.type))
  ELSE IF ~DictHas(self.TARIFF_RATES, tariff)
  THEN Raise("ValueError", "Nepodderzhivaemyi tarif. Dostupnye",
             PyList(<<tariff, PyList(DictKeys(self.TARIFF_RATES))>>))
  ELSE Return(PyNone)

Script_validate_rating(self, rating, rating_type) ==
  IF ~IsInt(rating)
  THEN Raise("TypeError", "Reiting dolzhen byt tselym chislom, polucheno", PyStr(rating.type))
  ELSE IF ~(PyLe(PyInt(1), rating) /\ PyLe(rating, PyInt(5)))
  THEN Raise("ValueError", "Reiting dolzhen byt ot 1 do 5, polucheno",
             PyList(<<PyStr(rating_type), rating>>))
  ELSE Return(PyNone)

\* the statements of the copy's calculate_fare that follow the validation
Script_compute_fare(self, distance, tariff, traffic_rating, weather_rating, overload_rating) ==
  LET base_rate           == DictGet(self.TARIFF_RATES, tariff)
      base_fare           == PyMul(distance, base_rate)
      traffic_multiplier  == DictGet(self.TRAFFIC_MULTIPLIERS, traffic_rating)
      weather_multiplier  == DictGet(self.WEATHER_MULTIPLIERS, weather_rating)
      overload_multiplier == DictGet(self.OVERLOAD_MULTIPLIERS, overload_rating)
      total_multiplier    == PyMul(PyMul(traffic_multiplier, weather_multiplier),
                                   overload_multiplier)
      fare                == PyMul(base_fare, total_multiplier)
  IN  Return(PyRound2(PyMax(fare, self.MIN_FARE)))

Script_calculate_fare(self, distance, tariff, traffic_rating, weather_rating, overload_rating) ==
  LET v1 == Script_validate_distance(self, distance)
      v2 == Script_validate_tariff(self, tariff)
      v3 == Script_validate_rating(self, traffic_rating, "probok")
      v4 == Script_validate_rating(self, weather_rating, "nepogody")
      v5 == Script_validate_rating(self, overload_rating, "sprosa")
  IN  IF v1.kind = "raise" THEN v1
      ELSE IF v2.kind = "raise" THEN v2
      ELSE IF v3.kind = "raise" THEN v3
      ELSE IF v4.kind = "raise" THEN v4
      ELSE IF v5.kind = "raise" THEN v5
      ELSE Script_compute_fare(self, distance, tariff, traffic_rating, weather_rating,
                               overload_rating)

Script_get_tariff_info(self) ==
  Return([type |-> "dict",
          tarify |-> PyList(DictKeys(self.TARIFF_RATES)),
          stavki |-> [type |-> "ref", to |-> "script.TaxiCalculator.TARIFF_RATES"],
          minimalnaya_stoimost |-> self.MIN_FARE])

\* the dict a reference of a record of the copy leads to
ScriptDeref(ref) ==
  IF ref.to = "script.TaxiCalculator.TARIFF_RATES" THEN ScriptTariffRates ELSE <<>>

\* how the copy ends the call that has just been made
ScriptOutcome ==
  IF call.op = "validate_distance" THEN Script_validate_distance(ScriptSelf, call.args[1])
  ELSE IF call.op = "validate_tariff" THEN Script_validate_tariff(ScriptSelf, call.args[1])
  ELSE IF call.op = "validate_rating"
  THEN Script_validate_rating(ScriptSelf, call.args[1],
                              Bind(call.args[2], PyStr("traffic")).s)
  ELSE IF call.op = "calculate_fare"
  THEN Script_calculate_fare(ScriptSelf, ArgDistance, ArgTariff, Bind(ArgTraffic, PyInt(1)),
                             Bind(ArgWeather, PyInt(1)), Bind(ArgOverload, PyInt(1)))
  ELSE IF call.op = "get_tariff_info" THEN Script_get_tariff_info(ScriptSelf)
  ELSE NoOutcome

\* C14: every call ends in the copy of script.py as it ends in the class of
\* taxi_calculator.py: the same value returned (for get_tariff_info a record
\* with the same list, the same minimum and a mapping with the same items),
\* or the same error with the same message about the same argument
C14_CopiesAgree ==
  IF InfoCall
  THEN /\ outcome.kind = "return"
       /\ ScriptOutcome.kind = "return"
       /\ outcome.value.tarify = ScriptOutcome.value.tarify
       /\ outcome.value.minimalnaya_stoimost = ScriptOutcome.value.minimalnaya_stoimost
       /\ Deref(outcome.value.stavki) = ScriptDeref(ScriptOutcome.value.stavki)
  ELSE outcome = ScriptOutcome

\* 3.33 km biznes with ratings 5/4/3 has been priced, and the copy prices it
\* the same
C14_Witness ==
  /\ call = [op |-> "calculate_fare",
             args |-> <<PyFloat(333, 2), PyStr("biznes"), PyInt(5), PyInt(4), PyInt(3)>>]
  /\ outcome.kind = "return"
  /\ ScriptOutcome = outcome

====
